---- MODULE Spec2Model ----
(***************************************************************************)
(* wayland-client/src/egl.rs: WlEglSurface, a wrapper that owns one native *)
(* wl_egl_window handle and one WlSurface.                                 *)
(*                                                                         *)
(* The Rust side (egl.rs) is modelled from the source.  The collaborators  *)
(* it calls are not in egl.rs: the lazily loaded libwayland-egl function   *)
(* table (wayland_sys::egl), the four wl_egl_window_* entry points and the *)
(* WlSurface proxy.  They are modelled from the specification.             *)
(***************************************************************************)
EXTENDS Integers, Sequences, FiniteSets, TLC

\* ---------------------------------------------------------------- bounds
NumSurfaces == 2
MaxWrappers == 2
MaxDim == 1
MaxDisp == 1

Surfaces == 1..NumSurfaces
\* widths and heights are i32 passed through unvalidated: negative, zero, positive
Dims == (0 - 1)..MaxDim
\* displacements (dx, dy) of the top-left corner
Disps == {<<d, 0 - d>> : d \in 0..MaxDisp}
\* addresses the native allocator can hand out: as many as wrappers can be live at
\* once (each live wrapper owns a different surface), so an allocation never fails
Handles == 1..NumSurfaces
\* address of the wl_proxy behind a WlSurface (surface.ptr()); disjoint from Handles
SurfacePtr(s) == 100 + s
\* the bit pattern left in self.surface by mem::uninitialized()
Uninit == 0
Threads == 1..2

VARIABLES
    libOnDisk,   \* environment: can libwayland-egl.so be opened right now
    eglOption,   \* WAYLAND_EGL_OPTION lazy static: "uninit", "some" or "none"
    windows,     \* native library heap: handle -> wl_egl_window
    surfaces,    \* WlSurface s: "owned" by the caller, "moved" into a wrapper, "destroyed"
    wrappers,    \* every WlEglSurface value ever built, in creation order
    panicked,    \* the process has panicked
    ret,         \* what the last operation returned
    events,      \* per wrapper: the native / protocol calls made on its behalf, in order
    created,     \* per wrapper: the surface given to new and the handle native create returned
    sizes,       \* per live wrapper: the (w, h) pairs of the new / resize calls not yet
                 \* superseded by a later call that began after they returned
    lastCall,    \* per wrapper: "new" or "resize", whichever set its size last; "ended" after
    ptrSeen,     \* per wrapper: values egl_surface_ptr has returned
    availSeen,   \* values is_available has returned in this process
    uaf,         \* a native entry point was called on a handle that is not live
    thr          \* per thread: the call in progress through a shared reference

vars == <<libOnDisk, eglOption, windows, surfaces, wrappers, panicked, ret,
          events, created, sizes, lastCall, ptrSeen, availSeen, uaf, thr>>

\* ------------------------------------------------- native library (stub)
DeadWindow == [live |-> FALSE, surface |-> 0, width |-> 0, height |-> 0]

IsLive(win, p) == p \in Handles /\ win[p].live

\* handles the allocator may return: any address not currently allocated
FreeHandles(win) == {p \in Handles : ~win[p].live}

wl_egl_window_create(win, p, surf, width, height) ==
    [win EXCEPT ![p] = [live |-> TRUE, surface |-> surf, width |-> width, height |-> height]]

wl_egl_window_destroy(win, p) ==
    IF p \in Handles THEN [win EXCEPT ![p] = DeadWindow] ELSE win

wl_egl_window_get_attached_size(win, p) ==
    IF p \in Handles THEN <<win[p].width, win[p].height>> ELSE <<0, 0>>

\* the displacement (dx, dy) is used for the resize itself and is not retained
wl_egl_window_resize(win, p, width, height, dx, dy) ==
    IF IsLive(win, p)
    THEN [win EXCEPT ![p].width = width, ![p].height = height]
    ELSE win

\* ------------------------------------------- library loading (wayland_sys)
\* value WAYLAND_EGL_OPTION has after being forced: the first probe is cached
ForcedOption == IF eglOption = "uninit"
                THEN (IF libOnDisk THEN "some" ELSE "none")
                ELSE eglOption

is_lib_available == ForcedOption = "some"

\* WlSurface's own destructor: sends the protocol destroy request
drop_WlSurface(surfs, s) ==
    IF s \in Surfaces THEN [surfs EXCEPT ![s] = "destroyed"] ELSE surfs

\* ---------------------------------------------------------------- Init
Ev(call, arg) == [call |-> call, arg |-> arg]
NoCall == [op |-> "idle", w |-> 0, height |-> 0, rw |-> 0]

Init ==
    /\ libOnDisk \in BOOLEAN
    /\ eglOption = "uninit"
    /\ windows = [p \in Handles |-> DeadWindow]
    /\ surfaces = [s \in Surfaces |-> "owned"]
    /\ wrappers = <<>>
    /\ panicked = FALSE
    /\ ret = [op |-> "none", w |-> 0, val |-> <<>>]
    /\ events = <<>>
    /\ created = <<>>
    /\ sizes = <<>>
    /\ lastCall = <<>>
    /\ ptrSeen = <<>>
    /\ availSeen = {}
    /\ uaf = FALSE
    /\ thr = [t \in Threads |-> NoCall]

Live(i) == i \in 1..Len(wrappers) /\ wrappers[i].st = "live"
Running == ~panicked

\* a wrapper that no thread is inside a call on: only then can it be moved or dropped
Unborrowed(i) == \A t \in Threads : thr[t].w # i

\* ----------------------------------------------------------- operations
\* is_available probing the file system on every call instead of reading the cached table
is_available_reprobe ==
    /\ Running
    /\ ret' = [op |-> "is_available", w |-> 0, val |-> <<libOnDisk>>]
    /\ availSeen' = availSeen \cup {libOnDisk}
    /\ UNCHANGED <<libOnDisk, eglOption, windows, surfaces, wrappers, panicked, events,
                   created, sizes, lastCall, ptrSeen, uaf, thr>>

is_available ==
    /\ Running
    /\ eglOption' = ForcedOption
    /\ ret' = [op |-> "is_available", w |-> 0, val |-> <<is_lib_available>>]
    /\ availSeen' = availSeen \cup {is_lib_available}
    /\ UNCHANGED <<libOnDisk, windows, surfaces, wrappers, panicked, events, created,
                   sizes, lastCall, ptrSeen, uaf, thr>>

\* new that checks the probe itself and, without the library, hands back a wrapper around
\* a null handle instead of panicking
new_checked(s, width, height) ==
    /\ Running
    /\ surfaces[s] = "owned"
    /\ Len(wrappers) < MaxWrappers
    /\ eglOption' = ForcedOption
    /\ \E p \in (IF is_lib_available THEN FreeHandles(windows) ELSE {0}) :
            /\ windows' = IF p = 0 THEN windows
                          ELSE wl_egl_window_create(windows, p, SurfacePtr(s), width, height)
            /\ wrappers' = Append(wrappers, [ptr |-> p, surface |-> s, st |-> "live"])
            /\ surfaces' = [surfaces EXCEPT ![s] = "moved"]
            /\ events' = Append(events, <<Ev("wl_egl_window_create", p)>>)
            /\ created' = Append(created, [surface |-> s, ptr |-> p])
            /\ sizes' = Append(sizes, {<<width, height>>})
            /\ lastCall' = Append(lastCall, "new")
            /\ ptrSeen' = Append(ptrSeen, {})
            /\ ret' = [op |-> "new", w |-> Len(wrappers) + 1, val |-> <<p>>]
    /\ UNCHANGED <<libOnDisk, panicked, availSeen, uaf, thr>>

\* new with height and width exchanged in the foreign call
new_swapped(s, width, height) ==
    /\ Running
    /\ surfaces[s] = "owned"
    /\ Len(wrappers) < MaxWrappers
    /\ eglOption' = ForcedOption
    /\ IF ~is_lib_available
       THEN /\ panicked' = TRUE
            /\ surfaces' = drop_WlSurface(surfaces, s)
            /\ ret' = [op |-> "panic", w |-> 0, val |-> <<>>]
            /\ UNCHANGED <<windows, wrappers, events, created, sizes, lastCall, ptrSeen>>
       ELSE \E p \in FreeHandles(windows) :
            /\ windows' = wl_egl_window_create(windows, p, SurfacePtr(s), height, width)
            /\ wrappers' = Append(wrappers, [ptr |-> p, surface |-> s, st |-> "live"])
            /\ surfaces' = [surfaces EXCEPT ![s] = "moved"]
            /\ events' = Append(events, <<Ev("wl_egl_window_create", p)>>)
            /\ created' = Append(created, [surface |-> s, ptr |-> p])
            /\ sizes' = Append(sizes, {<<width, height>>})
            /\ lastCall' = Append(lastCall, "new")
            /\ ptrSeen' = Append(ptrSeen, {})
            /\ ret' = [op |-> "new", w |-> Len(wrappers) + 1, val |-> <<p>>]
            /\ UNCHANGED panicked
    /\ UNCHANGED <<libOnDisk, availSeen, uaf, thr>>

new(s, width, height) ==
    /\ Running
    /\ surfaces[s] = "owned"
    /\ Len(wrappers) < MaxWrappers
    /\ eglOption' = ForcedOption
    /\ IF ~is_lib_available
       THEN \* ffi_dispatch! dereferences WAYLAND_EGL_HANDLE, which panics; unwinding
            \* drops the surface argument
            /\ panicked' = TRUE
            /\ surfaces' = drop_WlSurface(surfaces, s)
            /\ ret' = [op |-> "panic", w |-> 0, val |-> <<>>]
            /\ UNCHANGED <<windows, wrappers, events, created, sizes, lastCall, ptrSeen>>
       ELSE \E p \in FreeHandles(windows) :
            /\ windows' = wl_egl_window_create(windows, p, SurfacePtr(s), width, height)
            /\ wrappers' = Append(wrappers, [ptr |-> p, surface |-> s, st |-> "live"])
            /\ surfaces' = [surfaces EXCEPT ![s] = "moved"]
            /\ events' = Append(events, <<Ev("wl_egl_window_create", p)>>)
            /\ created' = Append(created, [surface |-> s, ptr |-> p])
            /\ sizes' = Append(sizes, {<<width, height>>})
            /\ lastCall' = Append(lastCall, "new")
            /\ ptrSeen' = Append(ptrSeen, {})
            /\ ret' = [op |-> "new", w |-> Len(wrappers) + 1, val |-> <<p>>]
            /\ UNCHANGED panicked
    /\ UNCHANGED <<libOnDisk, availSeen, uaf, thr>>

\* destroy that borrows the wrapper instead of consuming it: the handle is destroyed and
\* the surface taken out, but the wrapper stays usable
destroy_not_consuming(i) ==
    /\ Running
    /\ Live(i)
    /\ Unborrowed(i)
    /\ windows' = wl_egl_window_destroy(windows, wrappers[i].ptr)
    /\ uaf' = (uaf \/ ~IsLive(windows, wrappers[i].ptr))
    /\ events' = [events EXCEPT ![i] = Append(@, Ev("wl_egl_window_destroy", wrappers[i].ptr))]
    /\ wrappers' = [wrappers EXCEPT ![i].surface = Uninit]
    /\ surfaces' = IF wrappers[i].surface \in Surfaces
                   THEN [surfaces EXCEPT ![wrappers[i].surface] = "owned"]
                   ELSE surfaces
    /\ ret' = [op |-> "destroy", w |-> i, val |-> <<wrappers[i].surface>>]
    /\ UNCHANGED <<libOnDisk, eglOption, panicked, created, sizes, lastCall, ptrSeen,
                   availSeen, thr>>

\* destroy without mem::forget: self is dropped on return, so Drop::drop destroys the
\* handle a second time and the placeholder left in self.surface is dropped
destroy_without_forget(i) ==
    /\ Running
    /\ Live(i)
    /\ Unborrowed(i)
    /\ windows' = wl_egl_window_destroy(windows, wrappers[i].ptr)
    /\ uaf' = TRUE
    /\ events' = [events EXCEPT ![i] = @ \o <<Ev("wl_egl_window_destroy", wrappers[i].ptr),
                                               Ev("wl_egl_window_destroy", wrappers[i].ptr),
                                               Ev("wl_surface_destroy", Uninit)>>]
    /\ wrappers' = [wrappers EXCEPT ![i].surface = Uninit, ![i].st = "consumed"]
    /\ surfaces' = [surfaces EXCEPT ![wrappers[i].surface] = "owned"]
    /\ sizes' = [sizes EXCEPT ![i] = {}]
    /\ lastCall' = [lastCall EXCEPT ![i] = "ended"]
    /\ ret' = [op |-> "destroy", w |-> i, val |-> <<wrappers[i].surface>>]
    /\ UNCHANGED <<libOnDisk, eglOption, panicked, created, ptrSeen, availSeen, thr>>

\* destroy that copies the surface out and lets self fall out of scope: the handle is
\* destroyed once (by Drop), but the surface handed back has been destroyed with it
destroy_via_field_drop(i) ==
    /\ Running
    /\ Live(i)
    /\ Unborrowed(i)
    /\ windows' = wl_egl_window_destroy(windows, wrappers[i].ptr)
    /\ uaf' = (uaf \/ ~IsLive(windows, wrappers[i].ptr))
    /\ events' = [events EXCEPT ![i] = @ \o <<Ev("wl_egl_window_destroy", wrappers[i].ptr),
                                               Ev("wl_surface_destroy", wrappers[i].surface)>>]
    /\ wrappers' = [wrappers EXCEPT ![i].st = "consumed"]
    /\ surfaces' = drop_WlSurface(surfaces, wrappers[i].surface)
    /\ sizes' = [sizes EXCEPT ![i] = {}]
    /\ lastCall' = [lastCall EXCEPT ![i] = "ended"]
    /\ ret' = [op |-> "destroy", w |-> i, val |-> <<wrappers[i].surface>>]
    /\ UNCHANGED <<libOnDisk, eglOption, panicked, created, ptrSeen, availSeen, thr>>

destroy(i) ==
    /\ Running
    /\ Live(i)
    /\ Unborrowed(i)
    /\ windows' = wl_egl_window_destroy(windows, wrappers[i].ptr)
    /\ uaf' = (uaf \/ ~IsLive(windows, wrappers[i].ptr))
    /\ events' = [events EXCEPT ![i] = Append(@, Ev("wl_egl_window_destroy", wrappers[i].ptr))]
    \* mem::replace moves the surface out, mem::forget skips Drop and the field drops
    /\ wrappers' = [wrappers EXCEPT ![i].surface = Uninit, ![i].st = "consumed"]
    /\ surfaces' = [surfaces EXCEPT ![wrappers[i].surface] = "owned"]
    /\ sizes' = [sizes EXCEPT ![i] = {}]
    /\ lastCall' = [lastCall EXCEPT ![i] = "ended"]
    /\ ret' = [op |-> "destroy", w |-> i, val |-> <<wrappers[i].surface>>]
    /\ UNCHANGED <<libOnDisk, eglOption, panicked, created, ptrSeen, availSeen, thr>>

\* a Drop impl that forgets the native call: only the fields are dropped
drop_leaking(i) ==
    /\ Running
    /\ Live(i)
    /\ Unborrowed(i)
    /\ surfaces' = drop_WlSurface(surfaces, wrappers[i].surface)
    /\ events' = [events EXCEPT ![i] = Append(@, Ev("wl_surface_destroy", wrappers[i].surface))]
    /\ wrappers' = [wrappers EXCEPT ![i].st = "dropped"]
    /\ sizes' = [sizes EXCEPT ![i] = {}]
    /\ lastCall' = [lastCall EXCEPT ![i] = "ended"]
    /\ ret' = [op |-> "drop", w |-> i, val |-> <<>>]
    /\ UNCHANGED <<libOnDisk, eglOption, windows, panicked, created, ptrSeen, availSeen,
                   uaf, thr>>

\* a Drop impl that releases the surface before the native window made from it
drop_surface_first(i) ==
    /\ Running
    /\ Live(i)
    /\ Unborrowed(i)
    /\ windows' = wl_egl_window_destroy(windows, wrappers[i].ptr)
    /\ uaf' = (uaf \/ ~IsLive(windows, wrappers[i].ptr))
    /\ surfaces' = drop_WlSurface(surfaces, wrappers[i].surface)
    /\ events' = [events EXCEPT ![i] = @ \o <<Ev("wl_surface_destroy", wrappers[i].surface),
                                               Ev("wl_egl_window_destroy", wrappers[i].ptr)>>]
    /\ wrappers' = [wrappers EXCEPT ![i].st = "dropped"]
    /\ sizes' = [sizes EXCEPT ![i] = {}]
    /\ lastCall' = [lastCall EXCEPT ![i] = "ended"]
    /\ ret' = [op |-> "drop", w |-> i, val |-> <<>>]
    /\ UNCHANGED <<libOnDisk, eglOption, panicked, created, ptrSeen, availSeen, thr>>

\* scope exit: Drop::drop, then the fields are dropped in declaration order
drop(i) ==
    /\ Running
    /\ Live(i)
    /\ Unborrowed(i)
    /\ windows' = wl_egl_window_destroy(windows, wrappers[i].ptr)
    /\ uaf' = (uaf \/ ~IsLive(windows, wrappers[i].ptr))
    /\ surfaces' = drop_WlSurface(surfaces, wrappers[i].surface)
    /\ events' = [events EXCEPT ![i] = @ \o <<Ev("wl_egl_window_destroy", wrappers[i].ptr),
                                               Ev("wl_surface_destroy", wrappers[i].surface)>>]
    /\ wrappers' = [wrappers EXCEPT ![i].st = "dropped"]
    /\ sizes' = [sizes EXCEPT ![i] = {}]
    /\ lastCall' = [lastCall EXCEPT ![i] = "ended"]
    /\ ret' = [op |-> "drop", w |-> i, val |-> <<>>]
    /\ UNCHANGED <<libOnDisk, eglOption, panicked, created, ptrSeen, availSeen, thr>>

get_size(i) ==
    /\ Running
    /\ Live(i)
    /\ uaf' = (uaf \/ ~IsLive(windows, wrappers[i].ptr))
    /\ ret' = [op |-> "get_size", w |-> i,
               val |-> wl_egl_window_get_attached_size(windows, wrappers[i].ptr)]
    /\ UNCHANGED <<libOnDisk, eglOption, windows, surfaces, wrappers, panicked, events,
                   created, sizes, lastCall, ptrSeen, availSeen, thr>>

\* resize that replaces the native window by a new one of the wanted size and keeps the
\* new handle in self.ptr
resize_recreating(i, width, height, dx, dy) ==
    /\ Running
    /\ Live(i)
    /\ uaf' = (uaf \/ ~IsLive(windows, wrappers[i].ptr))
    /\ \E p \in FreeHandles(wl_egl_window_destroy(windows, wrappers[i].ptr)) :
          /\ windows' = wl_egl_window_create(wl_egl_window_destroy(windows, wrappers[i].ptr),
                                             p, SurfacePtr(wrappers[i].surface), width, height)
          /\ wrappers' = [wrappers EXCEPT ![i].ptr = p]
          /\ events' = [events EXCEPT ![i] = @ \o <<Ev("wl_egl_window_destroy", wrappers[i].ptr),
                                                     Ev("wl_egl_window_create", p)>>]
    /\ sizes' = [sizes EXCEPT ![i] = {<<width, height>>}]
    /\ lastCall' = [lastCall EXCEPT ![i] = "resize"]
    /\ ret' = [op |-> "resize", w |-> i, val |-> <<>>]
    /\ UNCHANGED <<libOnDisk, eglOption, surfaces, panicked, created, ptrSeen, availSeen, thr>>

\* resize with the argument pairs exchanged in the foreign call
resize_swapped(i, width, height, dx, dy) ==
    /\ Running
    /\ Live(i)
    /\ uaf' = (uaf \/ ~IsLive(windows, wrappers[i].ptr))
    /\ windows' = wl_egl_window_resize(windows, wrappers[i].ptr, dx, dy, width, height)
    /\ sizes' = [sizes EXCEPT ![i] = {<<width, height>>}]
    /\ lastCall' = [lastCall EXCEPT ![i] = "resize"]
    /\ ret' = [op |-> "resize", w |-> i, val |-> <<>>]
    /\ UNCHANGED <<libOnDisk, eglOption, surfaces, wrappers, panicked, events, created,
                   ptrSeen, availSeen, thr>>

resize(i, width, height, dx, dy) ==
    /\ Running
    /\ Live(i)
    /\ uaf' = (uaf \/ ~IsLive(windows, wrappers[i].ptr))
    /\ windows' = wl_egl_window_resize(windows, wrappers[i].ptr, width, height, dx, dy)
    /\ sizes' = [sizes EXCEPT ![i] = {<<width, height>>}]
    /\ lastCall' = [lastCall EXCEPT ![i] = "resize"]
    /\ ret' = [op |-> "resize", w |-> i, val |-> <<>>]
    /\ UNCHANGED <<libOnDisk, eglOption, surfaces, wrappers, panicked, events, created,
                   ptrSeen, availSeen, thr>>

\* egl_surface_ptr exporting the surface's proxy pointer instead of the window handle
egl_surface_ptr_of_surface(i) ==
    /\ Running
    /\ Live(i)
    /\ ret' = [op |-> "egl_surface_ptr", w |-> i, val |-> <<SurfacePtr(wrappers[i].surface)>>]
    /\ ptrSeen' = [ptrSeen EXCEPT ![i] = @ \cup {SurfacePtr(wrappers[i].surface)}]
    /\ UNCHANGED <<libOnDisk, eglOption, windows, surfaces, wrappers, panicked, events,
                   created, sizes, lastCall, availSeen, uaf, thr>>

egl_surface_ptr(i) ==
    /\ Running
    /\ Live(i)
    /\ ret' = [op |-> "egl_surface_ptr", w |-> i, val |-> <<wrappers[i].ptr>>]
    /\ ptrSeen' = [ptrSeen EXCEPT ![i] = @ \cup {wrappers[i].ptr}]
    /\ UNCHANGED <<libOnDisk, eglOption, windows, surfaces, wrappers, panicked, events,
                   created, sizes, lastCall, availSeen, uaf, thr>>

\* the caller drops a surface it owns (never wrapped, or handed back by destroy)
drop_surface(s) ==
    /\ Running
    /\ surfaces[s] = "owned"
    /\ surfaces' = drop_WlSurface(surfaces, s)
    /\ ret' = [op |-> "drop_surface", w |-> 0, val |-> <<s>>]
    /\ UNCHANGED <<libOnDisk, eglOption, windows, wrappers, panicked, events, created,
                   sizes, lastCall, ptrSeen, availSeen, uaf, thr>>

\* the library file appears or disappears on disk
EnvChange ==
    /\ Running
    /\ libOnDisk' = ~libOnDisk
    /\ UNCHANGED <<eglOption, windows, surfaces, wrappers, panicked, ret, events, created,
                   sizes, lastCall, ptrSeen, availSeen, uaf, thr>>

Next ==
    \/ is_available
    \/ \E s \in Surfaces, width \in Dims, height \in Dims : new(s, width, height)
    \/ \E i \in 1..MaxWrappers : destroy(i)
    \/ \E i \in 1..MaxWrappers : drop(i)
    \/ \E i \in 1..MaxWrappers : get_size(i)
    \/ \E i \in 1..MaxWrappers, width \in Dims, height \in Dims, d \in Disps :
          resize(i, width, height, d[1], d[2])
    \/ \E i \in 1..MaxWrappers : egl_surface_ptr(i)
    \/ \E s \in Surfaces : drop_surface(s)
    \/ EnvChange

Spec == Init /\ [][Next]_vars

\* ------------------------------------ calls through a shared &WlEglSurface
\* WlEglSurface is Sync and resize / get_size take &self, so two threads may be
\* inside them at once.  Nothing in egl.rs serialises the two foreign calls, and
\* each of them accesses the window's width and its height one after the other.
MaxPending == 2

wl_egl_window_set_width(win, p, width) == [win EXCEPT ![p].width = width]
wl_egl_window_set_height(win, p, height) == [win EXCEPT ![p].height = height]

resize_begin(t, i, width, height, dx, dy) ==
    /\ Running
    /\ Live(i)
    /\ thr[t].op = "idle"
    /\ Cardinality(sizes[i] \cup {<<width, height>>}) <= MaxPending
    /\ windows' = wl_egl_window_set_width(windows, wrappers[i].ptr, width)
    /\ sizes' = [sizes EXCEPT ![i] = @ \cup {<<width, height>>}]
    /\ lastCall' = [lastCall EXCEPT ![i] = "resize"]
    /\ thr' = [thr EXCEPT ![t] = [op |-> "resize", w |-> i, height |-> height, rw |-> 0]]
    /\ uaf' = (uaf \/ ~IsLive(windows, wrappers[i].ptr))
    /\ UNCHANGED <<libOnDisk, eglOption, surfaces, wrappers, panicked, ret, events,
                   created, ptrSeen, availSeen>>

resize_end(t) ==
    /\ Running
    /\ thr[t].op = "resize"
    /\ windows' = wl_egl_window_set_height(windows, wrappers[thr[t].w].ptr, thr[t].height)
    /\ thr' = [thr EXCEPT ![t] = NoCall]
    /\ ret' = [op |-> "resize", w |-> thr[t].w, val |-> <<>>]
    /\ UNCHANGED <<libOnDisk, eglOption, surfaces, wrappers, panicked, events, created,
                   sizes, lastCall, ptrSeen, availSeen, uaf>>

get_size_begin(t, i) ==
    /\ Running
    /\ Live(i)
    /\ thr[t].op = "idle"
    /\ thr' = [thr EXCEPT ![t] = [op |-> "get_size", w |-> i, height |-> 0,
                                  rw |-> windows[wrappers[i].ptr].width]]
    /\ uaf' = (uaf \/ ~IsLive(windows, wrappers[i].ptr))
    /\ UNCHANGED <<libOnDisk, eglOption, windows, surfaces, wrappers, panicked, ret,
                   events, created, sizes, lastCall, ptrSeen, availSeen>>

get_size_end(t) ==
    /\ Running
    /\ thr[t].op = "get_size"
    /\ ret' = [op |-> "get_size", w |-> thr[t].w,
               val |-> <<thr[t].rw, windows[wrappers[thr[t].w].ptr].height>>]
    /\ thr' = [thr EXCEPT ![t] = NoCall]
    /\ UNCHANGED <<libOnDisk, eglOption, windows, surfaces, wrappers, panicked, events,
                   created, sizes, lastCall, ptrSeen, availSeen, uaf>>

NextShared ==
    \/ \E s \in Surfaces, width \in Dims, height \in Dims : new(s, width, height)
    \/ \E t \in Threads, i \in 1..MaxWrappers, width \in Dims, height \in Dims, d \in Disps :
          resize_begin(t, i, width, height, d[1], d[2])
    \/ \E t \in Threads : resize_end(t)
    \/ \E t \in Threads, i \in 1..MaxWrappers : get_size_begin(t, i)
    \/ \E t \in Threads : get_size_end(t)
    \/ \E i \in 1..MaxWrappers : destroy(i)
    \/ \E i \in 1..MaxWrappers : drop(i)

\* the library is loaded and the caller holds one surface (the others were dropped)
InitShared ==
    /\ libOnDisk = TRUE
    /\ eglOption = "some"
    /\ windows = [p \in Handles |-> DeadWindow]
    /\ surfaces = [s \in Surfaces |-> IF s = 1 THEN "owned" ELSE "destroyed"]
    /\ wrappers = <<>>
    /\ panicked = FALSE
    /\ ret = [op |-> "none", w |-> 0, val |-> <<>>]
    /\ events = <<>>
    /\ created = <<>>
    /\ sizes = <<>>
    /\ lastCall = <<>>
    /\ ptrSeen = <<>>
    /\ availSeen = {}
    /\ uaf = FALSE
    /\ thr = [t \in Threads |-> NoCall]

SpecShared == InitShared /\ [][NextShared]_vars

\* ================================================================ claims
Ended(i) == wrappers[i].st \in {"consumed", "dropped"}
\* how many times the native destroy entry point was called on handle p for wrapper i
NativeDestroys(i, p) ==
    Cardinality({k \in 1..Len(events[i]) : events[i][k] = Ev("wl_egl_window_destroy", p)})
SurfaceDestroys(i) ==
    Cardinality({k \in 1..Len(events[i]) : events[i][k].call = "wl_surface_destroy"})
AllNativeDestroys(i) ==
    Cardinality({k \in 1..Len(events[i]) : events[i][k].call = "wl_egl_window_destroy"})

\* C1: over a wrapper's lifetime wl_egl_window_destroy is called exactly once, on that
\* wrapper's handle: not before it ends, and once (never twice) when it ends, whether
\* by scope exit or by destroy.
C1_NativeDestroyExactlyOnce ==
    \A i \in 1..Len(wrappers) :
        /\ NativeDestroys(i, created[i].ptr) = (IF Ended(i) THEN 1 ELSE 0)
        /\ AllNativeDestroys(i) = NativeDestroys(i, created[i].ptr)

C1_Witness ==
    \E i, j \in 1..Len(wrappers) :
        /\ wrappers[i].st = "consumed"
        /\ wrappers[j].st = "dropped"
        /\ ptrSeen[i] # {}

\* C2: a wrapper ended by destroy never has its surface's destroy invoked, and destroy
\* returns the very surface given to new, still live and owned by the caller.
C2_DestroyKeepsSurface ==
    /\ \A i \in 1..Len(wrappers) : wrappers[i].st = "consumed" => SurfaceDestroys(i) = 0
    /\ ret.op = "destroy" =>
          /\ ret.val = <<created[ret.w].surface>>
          /\ surfaces[created[ret.w].surface] = "owned"

C2_Witness ==
    /\ ret.op = "destroy"
    /\ wrappers[ret.w].st = "consumed"
    /\ surfaces[ret.val[1]] = "owned"

\* C3: a wrapper ended by scope exit has had, in this order and once each, the native
\* destroy on its handle and then its surface's destroy; no wrapper's surface is ever
\* destroyed before its native handle.
C3_DropNativeThenSurface ==
    \A i \in 1..Len(wrappers) :
        /\ wrappers[i].st = "dropped" =>
              /\ events[i] = <<Ev("wl_egl_window_create", created[i].ptr),
                               Ev("wl_egl_window_destroy", created[i].ptr),
                               Ev("wl_surface_destroy", created[i].surface)>>
              /\ surfaces[created[i].surface] = "destroyed"
        /\ \A k \in 1..Len(events[i]) :
              events[i][k].call = "wl_surface_destroy" =>
                  \E m \in 1..(k - 1) : events[i][m].call = "wl_egl_window_destroy"

C3_Witness ==
    /\ ret.op = "drop"
    /\ wrappers[ret.w].st = "dropped"
    /\ surfaces[created[ret.w].surface] = "destroyed"

\* C4: once a wrapper has been resized, get_size returns the (w, h) of the last resize
\* call, whatever displacement was passed.
C4_GetSizeAfterResize ==
    (ret.op = "get_size" /\ lastCall[ret.w] = "resize") => sizes[ret.w] = {ret.val}

C4_Witness ==
    /\ ret.op = "get_size"
    /\ lastCall[ret.w] = "resize"
    /\ ret.val = <<1, 0 - 1>>

\* C5: get_size on a wrapper that has not been resized since new(surface, width, height)
\* returns exactly (width, height), for zero and negative values too.
C5_GetSizeAfterNew ==
    (ret.op = "get_size" /\ lastCall[ret.w] = "new") => sizes[ret.w] = {ret.val}

C5_Witness ==
    /\ ret.op = "get_size"
    /\ lastCall[ret.w] = "new"
    /\ ret.val = <<0 - 1, 0>>

\* wrapper j was built on a surface that an earlier wrapper gave back through destroy
Rewrapped(j) ==
    \E i \in 1..(j - 1) :
        wrappers[i].st = "consumed" /\ created[i].surface = created[j].surface

\* C6: the surface destroy returns can be wrapped again: new on it is enabled and does
\* not panic, and a wrapper built on a surface that went through earlier new/destroy
\* cycles has a live handle made from that surface, reports the size of its own new,
\* and its surface has not been destroyed.
C6_SurfaceRewrappable ==
    /\ (ret.op = "destroy" /\ Len(wrappers) < MaxWrappers) =>
          /\ is_lib_available
          /\ \A width \in Dims, height \in Dims : ENABLED new(ret.val[1], width, height)
    /\ \A j \in 1..Len(wrappers) :
          (Live(j) /\ Rewrapped(j)) =>
              /\ IsLive(windows, wrappers[j].ptr)
              /\ windows[wrappers[j].ptr].surface = SurfacePtr(created[j].surface)
              /\ surfaces[created[j].surface] = "moved"
              /\ (ret.op = "get_size" /\ ret.w = j /\ lastCall[j] = "new") =>
                     sizes[j] = {ret.val}

C6_Witness ==
    /\ ret.op = "get_size"
    /\ Live(ret.w)
    /\ Rewrapped(ret.w)
    /\ lastCall[ret.w] = "new"
    /\ ret.val = <<1, 0>>

\* every value egl_surface_ptr returned for wrapper i is the handle native create gave it
PtrStable == \A i \in 1..Len(wrappers) : ptrSeen[i] \subseteq {created[i].ptr}

\* C7 (as stated): egl_surface_ptr is stable over a wrapper's life, and a later wrapper
\* returns a value that no earlier wrapper ever returned.
C7_PtrNeverReused ==
    /\ PtrStable
    /\ \A i, j \in 1..Len(wrappers) : i < j => ptrSeen[i] \cap ptrSeen[j] = {}

\* C7 (amended): egl_surface_ptr is stable over a wrapper's life, across get_size and
\* resize calls, and two wrappers that are live at the same time never return the same
\* value; the value of a wrapper that has ended may be returned again by a later one.
C7_PtrStableDistinctWhileLive ==
    /\ PtrStable
    /\ \A i, j \in 1..Len(wrappers) :
          (i # j /\ Live(i) /\ Live(j)) => ptrSeen[i] \cap ptrSeen[j] = {}

C7_Witness ==
    \E i, j \in 1..Len(wrappers) :
        /\ i < j /\ Live(i) /\ Live(j)
        /\ ptrSeen[i] # {} /\ ptrSeen[j] # {}
        /\ lastCall[i] = "resize"
        /\ ret.op = "egl_surface_ptr" /\ ret.w = i

\* a call of new has just returned or panicked
NewReturned == ret' # ret /\ ret'.op \in {"new", "panic"}

\* C8: new does not consult the probe.  Called while is_available() is false it panics
\* and produces neither a wrapper nor a native window; called while is_available() is
\* true it does not panic and returns a wrapper around a live handle.
C8_NewPanicsIffUnavailable ==
    [][NewReturned =>
          IF is_lib_available
          THEN /\ ret'.op = "new" /\ ~panicked'
               /\ Len(wrappers') = Len(wrappers) + 1
               /\ IsLive(windows', ret'.val[1])
          ELSE /\ ret'.op = "panic" /\ panicked'
               /\ wrappers' = wrappers /\ windows' = windows]_vars

C8_Witness ==
    /\ panicked
    /\ ret.op = "panic"
    /\ availSeen = {FALSE}
    /\ libOnDisk

\* C10: every is_available call of a process returns the same boolean, never panics,
\* and leaves wrappers, native windows and surfaces as they were.
C10_IsAvailablePure ==
    [][ret'.op = "is_available" =>
          /\ Cardinality(availSeen') <= 1
          /\ ret'.val \in {<<v>> : v \in availSeen'}
          /\ ~panicked'
          /\ UNCHANGED <<wrappers, windows, surfaces>>]_vars

C10_Witness ==
    /\ ret.op = "is_available"
    /\ ret.val = <<TRUE>>
    /\ ~libOnDisk
    /\ \E i \in 1..Len(wrappers) : wrappers[i].st = "consumed"
    /\ \E i \in 1..Len(wrappers) : Live(i)

\* C9: through a shared reference, every get_size returns the pair given to new or to
\* one single resize call, and while a call is in progress the wrapper is live and its
\* handle is the live window obtained at creation.
C9_SharedCallsAtomic ==
    /\ ret.op = "get_size" => ret.val \in sizes[ret.w]
    /\ \A t \in Threads :
          thr[t].op # "idle" =>
              /\ Live(thr[t].w)
              /\ wrappers[thr[t].w].ptr = created[thr[t].w].ptr
              /\ IsLive(windows, wrappers[thr[t].w].ptr)

\* C11: resize, get_size and egl_surface_ptr leave the wrapper as it was: the same handle
\* (the one from creation), the same owned surface, which is still live inside the
\* wrapper and has had no call made on it; get_size and egl_surface_ptr also leave the
\* native windows, and so the recorded size, unchanged.
C11_CallsLeaveWrapperUnchanged ==
    [][ret'.op \in {"resize", "get_size", "egl_surface_ptr"} =>
          /\ wrappers' = wrappers
          /\ surfaces' = surfaces
          /\ events' = events
          /\ wrappers'[ret'.w] = [ptr |-> created[ret'.w].ptr,
                                  surface |-> created[ret'.w].surface, st |-> "live"]
          /\ surfaces'[created[ret'.w].surface] = "moved"
          /\ \A k \in 1..Len(events'[ret'.w]) :
                events'[ret'.w][k].call # "wl_surface_destroy"
          /\ ret'.op # "resize" => windows' = windows]_vars

C11_Witness ==
    /\ ret.op = "resize"
    /\ Live(ret.w)
    /\ ptrSeen[ret.w] = {created[ret.w].ptr}
    /\ sizes[ret.w] = {<<0, 1>>}
    /\ surfaces[created[ret.w].surface] = "moved"

\* C12: no native entry point is ever called on a handle that is not a live window: a
\* live wrapper holds the handle native create returned to it, still allocated and with
\* no destroy called on it, and once a wrapper has ended (destroy or scope exit) none of
\* its operations can run again, also after its surface was dropped or wrapped anew.
C12_NoCallOnDestroyedHandle ==
    /\ ~uaf
    /\ \A i \in 1..Len(wrappers) :
          /\ Live(i) =>
                /\ wrappers[i].ptr = created[i].ptr
                /\ IsLive(windows, wrappers[i].ptr)
                /\ events[i] = <<Ev("wl_egl_window_create", created[i].ptr)>>
          /\ Ended(i) =>
                /\ ~ENABLED get_size(i)
                /\ ~ENABLED egl_surface_ptr(i)
                /\ ~ENABLED destroy(i)
                /\ ~ENABLED drop(i)
                /\ \A width \in Dims, height \in Dims, d \in Disps :
                      ~ENABLED resize(i, width, height, d[1], d[2])

C12_Witness ==
    /\ ret.op = "drop"
    /\ ~uaf
    /\ \E i, j \in 1..Len(wrappers) :
          /\ i < j
          /\ wrappers[i].st = "consumed"
          /\ wrappers[j].st = "dropped"
          /\ created[i].ptr = created[j].ptr
          /\ created[i].surface = created[j].surface
    /\ \E s \in Surfaces : surfaces[s] = "destroyed" /\ \A i \in 1..Len(wrappers) : created[i].surface # s

====
